---- MODULE Spec2Model ----
(***************************************************************************)
(* CalendarStore of custom_components/filter_calendar/calendar.py: the     *)
(* process-wide store that resolves calendars (async_get_calendar) and     *)
(* caches fetched event ranges in a cachetools.TTLCache, sharing one       *)
(* asyncio.Future per cache key between concurrent callers                 *)
(* (async_get_events).  Callers are asyncio tasks on one event loop: a     *)
(* step of the model is the code a task runs between two suspension        *)
(* points.                                                                 *)
(***************************************************************************)
EXTENDS Integers, Sequences, FiniteSets, TLC

(***************************************************************************)
(* Program constants.                                                      *)
(***************************************************************************)
\* TTLCache(maxsize=10, ...)
maxsize == 10
\* MIN_TIME_BETWEEN_UPDATES = timedelta(minutes=15), the cache's ttl; the
\* model's clock counts minutes.
MIN_TIME_BETWEEN_UPDATES == 15

(***************************************************************************)
(* Bounds of the model.                                                    *)
(***************************************************************************)
\* tasks that call the store
NCallers == 3
\* the clock advances a third of the ttl at a time, MaxTicks times
MaxTicks == 3
\* distinct event lists the upstream calendar may answer with
NResults == 2
\* distinct start minutes of the requested ranges
NStartMinutes == 2
\* entity objects a platform may register under one entity id, one after
\* the other
NObjects == 2
\* the longest list handed to combine_events
MaxEvents == 3
\* the latest time of an event handed to combine_events
MaxT == 3
\* the longest text of an event's field handed to a filter
MaxLen == 2
\* the view is followed over this many changes of the calendar day
MaxViewDays == 1
\* and, within a day, over this many steps of just more than the throttle
NThrottleSteps == 2
\* the longest list the store answers the view with
MaxAnswer == 2
\* where the cache is filled, the keys that are requested again after their
\* first request: the first NRepeated of them
NRepeated == 1

Callers == 1 .. NCallers
TickStep == MIN_TIME_BETWEEN_UPDATES \div 3
MaxTime == MaxTicks * TickStep
Results == 1 .. NResults

(***************************************************************************)
(* datetime values: the fields up to the minute are one number, seconds    *)
(* and microseconds are kept apart, as replace(second=0, microsecond=0)    *)
(* reads them.                                                             *)
(***************************************************************************)
DateTime(m, s, us) == [minute |-> m, second |-> s, microsecond |-> us]

\* a truncation that forgets the microseconds
TruncateSecondsOnly(d) == [d EXCEPT !.second = 0]

\* start_date.replace(second=0, microsecond=0)
Truncate(d) == [d EXCEPT !.second = 0, !.microsecond = 0]

\* keys.hashkey(calendar=..., start_date=..., end_date=...): a tuple of the
\* keyword values, equal exactly when the three values are equal
CacheKey(entity_id, start_date, end_date) ==
    << entity_id, Truncate(start_date), Truncate(end_date) >>

EntityIds == {"calendar.work"}
AllEntityIds == {"calendar.work", "calendar.home"}
Seconds == {0, 30}
Microseconds == {0, 7}
StartDates == {DateTime(m, s, 0) : m \in 1 .. NStartMinutes, s \in Seconds}
EndDates == {DateTime(100, 0, 0)}

(***************************************************************************)
(* Values.                                                                 *)
(***************************************************************************)
\* what a call of async_get_events or async_get_calendar ends with
Outcome(kind, v) == [kind |-> kind, v |-> v]
NoOutcome == Outcome("none", 0)
Events(v) == Outcome("events", v)
CalendarUnavailable == Outcome("CalendarUnavailable", 0)
CancelledError == Outcome("CancelledError", 0)
InvalidStateError == Outcome("InvalidStateError", 0)
OtherError == Outcome("OtherError", 0)

\* what a cache entry holds: a list of events, or an asyncio.Future in one
\* of its states.  A pending future names the task that will resolve it;
\* "orphan" is a pending future whose task has ended without resolving it.
ListValue(v) == [kind |-> "list", st |-> "result", v |-> v, owner |-> 0]
Future(st, v, owner) == [kind |-> "future", st |-> st, v |-> v, owner |-> owner]
PendingFuture(t) == Future("pending", 0, t)
IsPending(val) == val.kind = "future" /\ val.st \in {"pending", "orphan"}

(***************************************************************************)
(* cachetools.TTLCache, as the store uses it: a sequence of entries in     *)
(* the order of the cache's links (least recently used first), each with   *)
(* the time it expires.                                                    *)
(***************************************************************************)
Entry(k, val, expires) == [key |-> k, val |-> val, expires |-> expires]

IndexOf(c, k) == CHOOSE i \in 1 .. Len(c) : c[i].key = k
HasKey(c, k) == \E i \in 1 .. Len(c) : c[i].key = k
Remove(c, k) == SelectSeq(c, LAMBDA e : e.key # k)

\* TTLCache.expire(time): drop every entry with not (time < expires)
Expire(c, time) == SelectSeq(c, LAMBDA e : time < e.expires)

\* TTLCache.__contains__: present and not expired; touches nothing
Contains(c, k, time) == \E i \in 1 .. Len(c) : c[i].key = k /\ time < c[i].expires

\* TTLCache.__getitem__ of a key that __contains__ found: the value, and the
\* key's link moved to the end of the order
GetItemValue(c, k) == c[IndexOf(c, k)].val
\* a lookup that leaves the order of the links alone
GetItemCacheKeepsOrder(c, k) == c
GetItemCache(c, k) == Append(Remove(c, k), c[IndexOf(c, k)])

\* Cache.__setitem__'s loop for a new key: popitem() while the cache is full,
\* each dropping the first key of the order
RECURSIVE PopUntilFits(_)
PopUntilFits(c) == IF Len(c) + 1 > maxsize THEN PopUntilFits(Tail(c)) ELSE c

\* TTLCache.__setitem__: expire, make room for a new key, store the value,
\* move the key's link to the end and set its expiry to time + ttl
SetItem(c, k, val, time) ==
    LET live == Expire(c, time)
        room == IF HasKey(live, k) THEN Remove(live, k) ELSE PopUntilFits(live)
    IN  Append(room, Entry(k, val, time + MIN_TIME_BETWEEN_UPDATES))

\* a future changes state: every entry that holds it shows the new state
RECURSIVE Resolve(_, _, _)
Resolve(c, owner, val) ==
    IF c = << >> THEN << >>
    ELSE << IF Head(c).val = PendingFuture(owner)
            THEN [Head(c) EXCEPT !.val = val] ELSE Head(c) >>
         \o Resolve(Tail(c), owner, val)

\* the same for a future that no task will resolve, found under its key
RECURSIVE ResolveOrphan(_, _, _)
ResolveOrphan(c, k, val) ==
    IF c = << >> THEN << >>
    ELSE << IF Head(c).key = k /\ Head(c).val = Future("orphan", 0, 0)
            THEN [Head(c) EXCEPT !.val = val] ELSE Head(c) >>
         \o ResolveOrphan(Tail(c), k, val)

(***************************************************************************)
(* State.                                                                  *)
(***************************************************************************)
VARIABLES
    now,               \* datetime.now(), in minutes: the cache's timer
    events_cache,      \* CalendarStore._events_cache
    calendars,         \* CalendarStore._calendars: entity id -> handle, 0 = no key
    lock_holder,       \* CalendarStore._lock: the task holding it, 0 = unlocked
    lock_waiters,      \* CalendarStore._lock: the tasks queued in acquire()
    registry,          \* entity registry and platforms: entity id -> status, object
    pc,                \* where each calling task is suspended
    key_of,            \* the key of each task's call of async_get_events
    ret,               \* what each task's last call ended with
    awaited,           \* the future a task awaits at line 133, in its state
    fut_cancelled,     \* the future a task created at line 137 was cancelled
    cancel_requested,  \* Task.cancel() was called on the task's current call
    get_calendar_ret,  \* the last direct call of async_get_calendar
    fetched,           \* history: the task's call ran lines 137-142 (a cache miss)
    issued,            \* history: what the cache and the other tasks were at the call
    last_fetch,        \* history: per key, the latest fetch and what upstream answered
    hash_in,           \* two requests whose cache keys are compared
    hash_out,          \* their cache keys, once computed
    merge_in,          \* the list handed to combine_events
    merge_out,         \* what combine_events returned for it
    filter_in,         \* a filter and the event it is called on
    filter_out,        \* what AttrFilter and RegexFilter returned for it
    view_event,        \* FilterCalendar._event, the view's observable event
    view_last,         \* the last call of async_update: when, what range, how it ended
    use_order          \* history: the keys requested one call after the other, in
                       \* the order of their latest request

history_vars == << fetched, issued, last_fetch >>
use_vars == << use_order >>
store_vars == << now, events_cache, lock_holder, lock_waiters, pc, key_of, ret,
                 awaited, fut_cancelled, cancel_requested, history_vars, use_vars >>
calendar_vars == << calendars, registry, get_calendar_ret >>
key_vars == << hash_in, hash_out >>
merge_vars == << merge_in, merge_out >>
filter_vars == << filter_in, filter_out >>
view_vars == << view_event, view_last >>
pure_vars == << key_vars, merge_vars, filter_vars, view_vars >>
function_vars == << pure_vars, use_vars >>

NoKey == << "", DateTime(0, 0, 0), DateTime(0, 0, 0) >>
NoFuture == Future("none", 0, 0)

\* the requests that fill the cache beyond its capacity: one key more than
\* maxsize
CapDates == {DateTime(m, 0, 0) : m \in 1 .. (maxsize + 1)}
Keys == {CacheKey(e, s, d) : e \in EntityIds, s \in StartDates \cup CapDates, d \in EndDates}
\* a fetch of a key: the task that runs it, what upstream answered ("pending"
\* until it does), and when the entry written at line 138 expires
Fetch(owner, kind, v, until) == [owner |-> owner, kind |-> kind, v |-> v, until |-> until]
NoFetch == Fetch(0, "none", 0, 0)
\* upstream has answered the fetch that task t runs
Answered(lf, t, k, result) ==
    IF lf[k].owner = t /\ lf[k].kind = "pending"
    THEN [lf EXCEPT ![k] = Fetch(t, result.kind, result.v, lf[k].until)]
    ELSE lf

(***************************************************************************)
(* async_get_calendar                                                      *)
(***************************************************************************)
\* registry.async_get(entity_id), async_get_platforms(...), platform.entities:
\* "missing" = no registry entry, "unloaded" = an entry whose platform holds no
\* such entity, "notready" = entity.available is false, "ready" = available
RegistryStatuses == {"missing", "unloaded", "notready", "ready"}

\* a lookup that stores whatever entity the platform holds, available or not
GetCalendarStoresUnavailable(cals, reg, entity_id) ==
    IF cals[entity_id] # 0
    THEN [ok |-> TRUE, cal |-> cals[entity_id], calendars |-> cals, lookup |-> FALSE]
    ELSE [ok |-> reg[entity_id].status = "ready",
          cal |-> IF reg[entity_id].status = "ready" THEN reg[entity_id].obj ELSE 0,
          calendars |-> IF reg[entity_id].status \in {"ready", "notready"}
                        THEN [cals EXCEPT ![entity_id] = reg[entity_id].obj]
                        ELSE cals,
          lookup |-> TRUE]

\* the body of async_get_calendar: the handle from _calendars, or else the
\* registry lookup, which stores and returns an available entity and raises
\* CalendarUnavailable in every other case
GetCalendar(cals, reg, entity_id) ==
    IF cals[entity_id] # 0
    THEN [ok |-> TRUE, cal |-> cals[entity_id], calendars |-> cals, lookup |-> FALSE]
    ELSE IF reg[entity_id].status = "ready"
    THEN [ok |-> TRUE, cal |-> reg[entity_id].obj,
          calendars |-> [cals EXCEPT ![entity_id] = reg[entity_id].obj],
          lookup |-> TRUE]
    ELSE [ok |-> FALSE, cal |-> 0, calendars |-> cals, lookup |-> TRUE]

\* a direct call of CalendarStore.async_get_calendar(entity_id)
AsyncGetCalendar(entity_id) ==
    LET r == GetCalendar(calendars, registry, entity_id)
    IN  /\ calendars' = r.calendars
        /\ get_calendar_ret' = [entity_id |-> entity_id, ok |-> r.ok,
                                cal |-> r.cal, lookup |-> r.lookup]
        /\ UNCHANGED << registry, store_vars, function_vars >>

\* the host registers, readies, unloads or removes a calendar entity
RegistryUpdate(entity_id, status, obj) ==
    /\ registry[entity_id] # [status |-> status, obj |-> obj]
    /\ registry' = [registry EXCEPT ![entity_id] = [status |-> status, obj |-> obj]]
    /\ UNCHANGED << calendars, get_calendar_ret, store_vars, function_vars >>

(***************************************************************************)
(* asyncio.Lock                                                            *)
(***************************************************************************)
\* Lock.release(): the first queued task is woken and is the next to hold it
NextHolder == IF lock_waiters = << >> THEN 0 ELSE Head(lock_waiters)
RestWaiters == IF lock_waiters = << >> THEN << >> ELSE Tail(lock_waiters)

\* every task awaiting the future of `owner` sees its new state
Deliver(aw, owner, val) ==
    [t \in Callers |-> IF aw[t] = PendingFuture(owner) THEN val ELSE aw[t]]

(***************************************************************************)
(* async_get_events                                                        *)
(***************************************************************************)
\* lines 130-147, run by task t holding the lock, up to its first suspension
\* or its return
LockedSection(t, k) ==
    IF Contains(events_cache, k, now)
    THEN LET val == GetItemValue(events_cache, k)
             touched == GetItemCache(events_cache, k)
         IN  IF val.kind = "list"
             THEN \* line 135: return events
                  /\ events_cache' = touched
                  /\ ret' = [ret EXCEPT ![t] = Events(val.v)]
                  /\ pc' = [pc EXCEPT ![t] = "done"]
                  /\ lock_holder' = NextHolder
                  /\ lock_waiters' = RestWaiters
                  /\ UNCHANGED << awaited, fut_cancelled, calendars, fetched, last_fetch >>
             ELSE IF IsPending(val)
             THEN \* line 133: await events, suspended with the lock held
                  /\ events_cache' = touched
                  /\ awaited' = [awaited EXCEPT ![t] = val]
                  /\ pc' = [pc EXCEPT ![t] = "await"]
                  /\ lock_holder' = t
                  /\ ret' = [ret EXCEPT ![t] = NoOutcome]
                  /\ UNCHANGED << lock_waiters, fut_cancelled, calendars, fetched,
                                  last_fetch >>
             ELSE IF val.st = "result"
             THEN \* lines 133-135: a done future does not suspend; the list is
                  \* stored under the key and returned
                  /\ events_cache' = SetItem(touched, k, ListValue(val.v), now)
                  /\ ret' = [ret EXCEPT ![t] = Events(val.v)]
                  /\ pc' = [pc EXCEPT ![t] = "done"]
                  /\ lock_holder' = NextHolder
                  /\ lock_waiters' = RestWaiters
                  /\ UNCHANGED << awaited, fut_cancelled, calendars, fetched, last_fetch >>
             ELSE \* line 133 raises the future's exception, or CancelledError
                  \* when the future was cancelled
                  /\ events_cache' = touched
                  /\ ret' = [ret EXCEPT ![t] =
                        IF val.st = "exception" THEN CalendarUnavailable
                                                ELSE CancelledError]
                  /\ pc' = [pc EXCEPT ![t] = "done"]
                  /\ lock_holder' = NextHolder
                  /\ lock_waiters' = RestWaiters
                  /\ UNCHANGED << awaited, fut_cancelled, calendars, fetched, last_fetch >>
    ELSE \* the lock is released, then lines 137-142
         LET r == GetCalendar(calendars, registry, k[1])
             installed == SetItem(events_cache, k, PendingFuture(t), now)
         IN  /\ lock_holder' = NextHolder
             /\ lock_waiters' = RestWaiters
             /\ calendars' = r.calendars
             /\ fut_cancelled' = [fut_cancelled EXCEPT ![t] = FALSE]
             /\ fetched' = [fetched EXCEPT ![t] = TRUE]
             /\ last_fetch' = [last_fetch EXCEPT ![k] =
                    Fetch(t, IF r.ok THEN "pending" ELSE "CalendarUnavailable", 0,
                          now + MIN_TIME_BETWEEN_UPDATES)]
             /\ UNCHANGED awaited
             /\ IF r.ok
                THEN \* line 142: await cal.async_get_events(...)
                     /\ events_cache' = installed
                     /\ pc' = [pc EXCEPT ![t] = "fetch"]
                     /\ ret' = [ret EXCEPT ![t] = NoOutcome]
                ELSE \* lines 145-147: future.set_exception(ex); raise ex
                     /\ events_cache' =
                            Resolve(installed, t, Future("exception", 0, 0))
                     /\ pc' = [pc EXCEPT ![t] = "done"]
                     /\ ret' = [ret EXCEPT ![t] = CalendarUnavailable]

\* a task calls async_get_events(entity_id, start_date, end_date): it takes
\* the lock if it is free, and queues in Lock.acquire() if not
AsyncGetEvents(t, entity_id, start_date, end_date) ==
    LET k == CacheKey(entity_id, start_date, end_date)
    IN  /\ pc[t] = "idle"
        /\ key_of' = [key_of EXCEPT ![t] = k]
        /\ cancel_requested' = [cancel_requested EXCEPT ![t] = FALSE]
        /\ issued' = [issued EXCEPT ![t] =
                [on_miss |-> ~Contains(events_cache, k, now),
                 with |-> {u \in Callers : pc[u] \notin {"idle", "done"}}]]
        /\ UNCHANGED << pure_vars, now, registry, get_calendar_ret >>
        /\ IF lock_holder = 0
           THEN LockedSection(t, k)
           ELSE /\ lock_waiters' = Append(lock_waiters, t)
                /\ pc' = [pc EXCEPT ![t] = "acquire"]
                /\ ret' = [ret EXCEPT ![t] = NoOutcome]
                /\ UNCHANGED << events_cache, lock_holder, awaited,
                                fut_cancelled, calendars, fetched, last_fetch >>

\* a task woken in Lock.acquire() runs on with the lock
AcquireResume(t) ==
    /\ pc[t] = "acquire"
    /\ lock_holder = t
    /\ LockedSection(t, key_of[t])
    /\ UNCHANGED << function_vars, now, registry, get_calendar_ret, key_of, cancel_requested,
                    issued >>

\* a resumption that hands a waiter an empty list when the fetch has failed
AwaitResumeSwallowsFailure(t) ==
    /\ pc[t] = "await"
    /\ ~IsPending(awaited[t])
    /\ pc' = [pc EXCEPT ![t] = "done"]
    /\ UNCHANGED awaited
    /\ lock_holder' = NextHolder
    /\ lock_waiters' = RestWaiters
    /\ IF cancel_requested[t] \/ awaited[t].st = "cancelled"
       THEN /\ ret' = [ret EXCEPT ![t] = CancelledError]
            /\ UNCHANGED events_cache
       ELSE IF awaited[t].st = "exception"
       THEN /\ ret' = [ret EXCEPT ![t] = Events(0)]
            /\ UNCHANGED events_cache
       ELSE /\ ret' = [ret EXCEPT ![t] = Events(awaited[t].v)]
            /\ events_cache' =
                   SetItem(events_cache, key_of[t], ListValue(awaited[t].v), now)
    /\ UNCHANGED << function_vars, now, calendar_vars, key_of, fut_cancelled,
                    cancel_requested, history_vars >>

\* lines 133-135 after the suspension: the awaited future is done
AwaitResume(t) ==
    /\ pc[t] = "await"
    /\ ~IsPending(awaited[t])
    /\ pc' = [pc EXCEPT ![t] = "done"]
    /\ UNCHANGED awaited
    /\ lock_holder' = NextHolder
    /\ lock_waiters' = RestWaiters
    /\ IF cancel_requested[t] \/ awaited[t].st = "cancelled"
       THEN /\ ret' = [ret EXCEPT ![t] = CancelledError]
            /\ UNCHANGED events_cache
       ELSE IF awaited[t].st = "exception"
       THEN /\ ret' = [ret EXCEPT ![t] = CalendarUnavailable]
            /\ UNCHANGED events_cache
       ELSE /\ ret' = [ret EXCEPT ![t] = Events(awaited[t].v)]
            /\ events_cache' =
                   SetItem(events_cache, key_of[t], ListValue(awaited[t].v), now)
    /\ UNCHANGED << function_vars, now, calendar_vars, key_of, fut_cancelled, cancel_requested,
                    history_vars >>

\* line 142 returns `result`, or raises: lines 143-147
FetchDone(t, result) ==
    /\ pc[t] = "fetch"
    /\ pc' = [pc EXCEPT ![t] = "done"]
    /\ IF result.kind = "OtherError"
       THEN \* not caught: the future stays pending for ever
            /\ events_cache' = Resolve(events_cache, t, Future("orphan", 0, 0))
            /\ awaited' = Deliver(awaited, t, Future("orphan", 0, 0))
            /\ ret' = [ret EXCEPT ![t] = OtherError]
       ELSE IF fut_cancelled[t]
       THEN \* set_result / set_exception of a cancelled future raises
            /\ ret' = [ret EXCEPT ![t] = InvalidStateError]
            /\ UNCHANGED << events_cache, awaited >>
       ELSE LET done == IF result.kind = "events"
                        THEN Future("result", result.v, 0)
                        ELSE Future("exception", 0, 0)
            IN  /\ events_cache' = Resolve(events_cache, t, done)
                /\ awaited' = Deliver(awaited, t, done)
                /\ ret' = [ret EXCEPT ![t] = result]
    /\ last_fetch' = Answered(last_fetch, t, key_of[t], result)
    /\ UNCHANGED << function_vars, now, calendar_vars, lock_holder, lock_waiters, key_of,
                    fut_cancelled, cancel_requested, fetched, issued >>

FetchResults == {Events(v) : v \in Results} \cup {CalendarUnavailable, OtherError}

(***************************************************************************)
(* Task.cancel() on a caller, as a timeout around the call does.           *)
(***************************************************************************)
\* the caller is queued in Lock.acquire(): it leaves the queue, and passes
\* the lock on if it had just been woken
CancelAcquire(t) ==
    /\ pc[t] = "acquire"
    /\ pc' = [pc EXCEPT ![t] = "done"]
    /\ ret' = [ret EXCEPT ![t] = CancelledError]
    /\ cancel_requested' = [cancel_requested EXCEPT ![t] = TRUE]
    /\ IF lock_holder = t
       THEN /\ lock_holder' = NextHolder
            /\ lock_waiters' = RestWaiters
       ELSE /\ lock_waiters' = SelectSeq(lock_waiters, LAMBDA w : w # t)
            /\ UNCHANGED lock_holder
    /\ UNCHANGED << function_vars, now, events_cache, calendar_vars, key_of, awaited, fut_cancelled,
                    history_vars >>

\* the caller awaits the shared future at line 133: Task.cancel() cancels the
\* future the task waits for (Task._fut_waiter.cancel()); a future that is
\* done already is left alone and the task gets CancelledError when it runs
CancelAwait(t) ==
    /\ pc[t] = "await"
    /\ ~cancel_requested[t]
    /\ cancel_requested' = [cancel_requested EXCEPT ![t] = TRUE]
    /\ IF awaited[t].st = "pending"
       THEN /\ events_cache' =
                   Resolve(events_cache, awaited[t].owner, Future("cancelled", 0, 0))
            /\ awaited' = Deliver(awaited, awaited[t].owner, Future("cancelled", 0, 0))
            /\ fut_cancelled' = [fut_cancelled EXCEPT ![awaited[t].owner] = TRUE]
       ELSE IF awaited[t].st = "orphan"
       THEN /\ events_cache' =
                   ResolveOrphan(events_cache, key_of[t], Future("cancelled", 0, 0))
            /\ awaited' = [awaited EXCEPT ![t] = Future("cancelled", 0, 0)]
            /\ UNCHANGED fut_cancelled
       ELSE UNCHANGED << events_cache, awaited, fut_cancelled >>
    /\ UNCHANGED << function_vars, now, calendar_vars, lock_holder, lock_waiters, pc, key_of, ret,
                    history_vars >>

\* the caller awaits the upstream calendar at line 142: CancelledError is not
\* caught by lines 145-147, the future stays pending for ever
CancelFetch(t) ==
    /\ pc[t] = "fetch"
    /\ pc' = [pc EXCEPT ![t] = "done"]
    /\ ret' = [ret EXCEPT ![t] = CancelledError]
    /\ cancel_requested' = [cancel_requested EXCEPT ![t] = TRUE]
    /\ events_cache' = Resolve(events_cache, t, Future("orphan", 0, 0))
    /\ awaited' = Deliver(awaited, t, Future("orphan", 0, 0))
    /\ last_fetch' = Answered(last_fetch, t, key_of[t], CancelledError)
    /\ UNCHANGED << function_vars, now, calendar_vars, lock_holder, lock_waiters, key_of,
                    fut_cancelled, fetched, issued >>

(***************************************************************************)
(* The clock.                                                              *)
(***************************************************************************)
Tick ==
    /\ now + TickStep <= MaxTime
    /\ now' = now + TickStep
    /\ UNCHANGED << events_cache, lock_holder, lock_waiters, pc, key_of, ret,
                    awaited, fut_cancelled, cancel_requested, history_vars,
                    calendar_vars, function_vars >>

(***************************************************************************)
(* The store with its callers.                                             *)
(***************************************************************************)
vars == << store_vars, calendar_vars, function_vars >>

\* the store after CalendarStore.__init__, and tasks that have not called yet
InitStore ==
    /\ now = 0
    /\ events_cache = << >>
    /\ calendars = [e \in AllEntityIds |-> 0]
    /\ lock_holder = 0
    /\ lock_waiters = << >>
    /\ registry = [e \in AllEntityIds |-> [status |-> "missing", obj |-> 1]]
    /\ pc = [t \in Callers |-> "idle"]
    /\ key_of = [t \in Callers |-> NoKey]
    /\ ret = [t \in Callers |-> NoOutcome]
    /\ awaited = [t \in Callers |-> NoFuture]
    /\ fut_cancelled = [t \in Callers |-> FALSE]
    /\ cancel_requested = [t \in Callers |-> FALSE]
    /\ get_calendar_ret = [entity_id |-> "", ok |-> FALSE, cal |-> 0, lookup |-> FALSE]
    /\ fetched = [t \in Callers |-> FALSE]
    /\ issued = [t \in Callers |-> [on_miss |-> FALSE, with |-> {}]]
    /\ last_fetch = [k \in Keys |-> NoFetch]
    /\ use_order = << >>

\* the functions and the view before anything has called them
NotMerged == [done |-> FALSE, events |-> << >>]
NotFiltered == [done |-> FALSE, attr |-> FALSE, regex |-> FALSE]
\* FilterCalendar._event is None (line 261)
NoEvent == << >>
NeverUpdated == [at |-> -1, start_date |-> -1, end_date |-> -1, outcome |-> "none",
                 raised |-> FALSE, merged |-> << >>, throttled |-> FALSE]
KeyIdle == hash_in = << >> /\ hash_out = << >>
MergeIdle == merge_in = << >> /\ merge_out = NotMerged
FilterIdle == filter_in = << >> /\ filter_out = NotFiltered
ViewIdle == view_event = NoEvent /\ view_last = NeverUpdated

Init ==
    /\ InitStore
    /\ KeyIdle
    /\ MergeIdle
    /\ FilterIdle
    /\ ViewIdle

Next ==
    \/ \E t \in Callers, e \in EntityIds, s \in StartDates, d \in EndDates :
            AsyncGetEvents(t, e, s, d) /\ UNCHANGED use_order
    \/ \E t \in Callers : AcquireResume(t)
    \/ \E t \in Callers : AwaitResume(t)
    \/ \E t \in Callers, r \in FetchResults : FetchDone(t, r)
    \/ \E t \in Callers : CancelAcquire(t)
    \/ \E t \in Callers : CancelAwait(t)
    \/ \E t \in Callers : CancelFetch(t)
    \/ \E e \in EntityIds : RegistryUpdate(e, "ready", 1)
    \/ Tick

Spec == Init /\ [][Next]_vars

(***************************************************************************)
(* Properties of async_get_events.                                         *)
(***************************************************************************)
\* the calls of t and u overlapped in time
Concurrent(t, u) == t \in issued[u].with \/ u \in issued[t].with
\* task t runs lines 130-147 up to the first suspension in this step
Checks(t) ==
    /\ pc[t] \in {"idle", "acquire"}
    /\ pc'[t] \in {"await", "fetch", "done"}
    /\ ~cancel_requested'[t]
\* task t's call starts a fetch in this step (lines 137-142)
StartsFetch(t) == ~fetched[t] /\ fetched'[t]

\* C1: concurrent calls of get_events with the same CacheKey, each issued
\* while the cache held no entry for the key, are served by one upstream
\* fetch, and those of them that have returned have returned the same
\* outcome.
C1_OneFetchSameOutcome ==
    \A t, u \in Callers :
        ( /\ t # u
          /\ key_of[t] = key_of[u]
          /\ Concurrent(t, u)
          /\ issued[t].on_miss /\ issued[u].on_miss )
        => /\ ~(fetched[t] /\ fetched[u])
           /\ (pc[t] = "done" /\ pc[u] = "done") => ret[t] = ret[u]

\* C2: at most one upstream fetch per CacheKey is in flight, in every
\* reachable state, entries expiring or being evicted included.
C2_OneFetchInFlightPerKey ==
    \A t, u \in Callers :
        (t # u /\ pc[t] = "fetch" /\ pc[u] = "fetch") => key_of[t] # key_of[u]

\* C5: the lock is not held while a caller waits for a fetch to complete, so
\* no call for one key is kept waiting in Lock.acquire() by a caller that
\* awaits the in-flight fetch of another key.
C5_LockNotHeldAcrossFetch ==
    \A w, b \in Callers :
        ~( /\ pc[w] = "await" /\ lock_holder = w /\ awaited[w].st = "pending"
           /\ pc[b] = "acquire" /\ key_of[b] # key_of[w] )

\* C6: a waiting caller that is cancelled does not cancel the shared future:
\* the fetch still records its outcome (set_result and set_exception do not
\* fail), and no caller that was not itself cancelled gets CancelledError.
C6_CancelledWaiterLeavesFetch ==
    \A t \in Callers :
        /\ ~fut_cancelled[t]
        /\ ret[t] # InvalidStateError
        /\ ret[t] = CancelledError => cancel_requested[t]

\* C8: an entry expires a fixed ttl after the fetch that created it wrote
\* it: no step other than the start of a fetch for the key moves the expiry
\* of the key's live entry.
ExpiryOf(c, k) == c[IndexOf(c, k)].expires
C8_ReadKeepsExpiry ==
    [][\A k \in Keys :
          ( /\ Contains(events_cache, k, now)
            /\ HasKey(events_cache', k)
            /\ ~\E t \in Callers : StartsFetch(t) /\ key_of'[t] = k )
          => ExpiryOf(events_cache', k) = ExpiryOf(events_cache, k)]_vars

\* C3: once upstream has failed the fetch of a key with CalendarUnavailable,
\* a call for the key that reads the cache before the entry's ttl has elapsed
\* fails with CalendarUnavailable and starts no fetch, and the first call
\* that reads it after the ttl has elapsed starts a fresh fetch.
C3_FailureCachedForTtl ==
    [][\A t \in Callers :
          (Checks(t) /\ last_fetch[key_of'[t]].kind = "CalendarUnavailable")
          => IF now < last_fetch[key_of'[t]].until
             THEN pc'[t] = "done" /\ ret'[t] = CalendarUnavailable /\ ~StartsFetch(t)
             ELSE StartsFetch(t)]_vars

\* C4: once the fetch of a key has succeeded, a call for the key that reads
\* the cache before the entry's ttl has elapsed returns the fetched list and
\* starts no fetch, and the next call after the ttl has elapsed fetches anew.
C4_SuccessCachedForTtl ==
    [][\A t \in Callers :
          (Checks(t) /\ last_fetch[key_of'[t]].kind = "events")
          => IF now < last_fetch[key_of'[t]].until
             THEN /\ pc'[t] = "done"
                  /\ ret'[t] = Events(last_fetch[key_of'[t]].v)
                  /\ ~StartsFetch(t)
             ELSE StartsFetch(t)]_vars

(***************************************************************************)
(* The event loop runs every task that is ready to run: a task woken in    *)
(* Lock.acquire() and a task whose awaited future is done.  Nothing makes  *)
(* the upstream calendar answer.                                           *)
(***************************************************************************)
FairSpec ==
    /\ Spec
    /\ \A t \in Callers : WF_vars(AwaitResume(t)) /\ WF_vars(AcquireResume(t))

DoneFutures == {Future("result", v, 0) : v \in Results} \cup {Future("exception", 0, 0)}
OutcomeOf(val) == IF val.st = "result" THEN Events(val.v) ELSE CalendarUnavailable

KeyDates(minutes) ==
    {DateTime(m, sec, us) : m \in minutes, sec \in Seconds, us \in Microseconds}
Requests ==
    [entity_id : AllEntityIds,
     start_date : KeyDates(1 .. NStartMinutes),
     end_date : KeyDates({100, 101})]

InitKey ==
    /\ InitStore
    /\ hash_in \in Requests \X Requests
    /\ hash_out = << >>
    /\ MergeIdle
    /\ FilterIdle
    /\ ViewIdle

\* lines 124-128 for both requests
HashKeys ==
    /\ hash_out = << >>
    /\ hash_out' = << CacheKey(hash_in[1].entity_id, hash_in[1].start_date,
                               hash_in[1].end_date),
                      CacheKey(hash_in[2].entity_id, hash_in[2].start_date,
                               hash_in[2].end_date) >>
    /\ UNCHANGED << hash_in, store_vars, calendar_vars, merge_vars, filter_vars, view_vars >>

NextKey == HashKeys

SpecKey == InitKey /\ [][NextKey]_vars

\* C9: two requests have the same cache key exactly when they name the same
\* calendar and their starts agree up to the minute and their ends agree up
\* to the minute; seconds and microseconds do not matter.
C9_KeyTruncatesToMinute ==
    hash_out # << >> =>
        ( hash_out[1] = hash_out[2]
          <=> ( /\ hash_in[1].entity_id = hash_in[2].entity_id
                /\ hash_in[1].start_date.minute = hash_in[2].start_date.minute
                /\ hash_in[1].end_date.minute = hash_in[2].end_date.minute ) )

C9_Witness ==
    /\ hash_out # << >>
    /\ hash_out[1] = hash_out[2]
    /\ hash_in[1].start_date.second # hash_in[2].start_date.second
    /\ hash_in[1].end_date.microsecond # hash_in[2].end_date.microsecond

(***************************************************************************)
(* async_get_calendar with a registry that changes under it.               *)
(***************************************************************************)
NextCal ==
    \/ \E e \in AllEntityIds : AsyncGetCalendar(e)
    \/ \E e \in AllEntityIds, st \in RegistryStatuses, o \in 1 .. NObjects :
            RegistryUpdate(e, st, o)

SpecCal == Init /\ [][NextCal]_vars

\* C10: only found-and-available calendars are cached.  A call for an
\* identifier that has resolved returns the stored handle without a registry
\* lookup, and the stored handle never changes; a call that finds the
\* calendar missing or not ready fails and leaves the map as it was, so the
\* next call looks the identifier up again.
C10_PositiveResolutionsOnly ==
    [][/\ \A e \in AllEntityIds : calendars[e] # 0 => calendars'[e] = calendars[e]
       /\ get_calendar_ret' # get_calendar_ret =>
            LET e == get_calendar_ret'.entity_id
            IN  IF calendars[e] # 0
                THEN /\ get_calendar_ret'.ok
                     /\ get_calendar_ret'.cal = calendars[e]
                     /\ ~get_calendar_ret'.lookup
                     /\ calendars' = calendars
                ELSE /\ get_calendar_ret'.lookup
                     /\ get_calendar_ret'.ok <=> registry[e].status = "ready"
                     /\ get_calendar_ret'.ok =>
                            /\ get_calendar_ret'.cal = registry[e].obj
                            /\ calendars' = [calendars EXCEPT ![e] = registry[e].obj]
                     /\ ~get_calendar_ret'.ok => calendars' = calendars]_vars

\* a handle is returned from the map after the registry has moved on, and a
\* failed call has left the other identifier unresolved
C10_Witness ==
    /\ get_calendar_ret.ok /\ ~get_calendar_ret.lookup
    /\ registry[get_calendar_ret.entity_id].status # "ready"
    /\ registry[get_calendar_ret.entity_id].obj # get_calendar_ret.cal
    /\ \E e \in AllEntityIds : calendars[e] = 0 /\ registry[e].status = "notready"

(***************************************************************************)
(* combine_events, as a function of the list it is given.                  *)
(***************************************************************************)
Times == 0 .. MaxT
Summaries == {"A", "B"}
\* CalendarEvent(start, end, summary), with start <= end
CalendarEvent(start, end, summary) == [start |-> start, end |-> end, summary |-> summary]
CalendarEvents == {ev \in [start : Times, end : Times, summary : Summaries] : ev.start <= ev.end}
EventLists == UNION {[1 .. n -> CalendarEvents] : n \in 0 .. MaxEvents}

Max(a, b) == IF a >= b THEN a ELSE b

\* list.sort(key=lambda x: x.start): stable, an event goes after every event
\* already placed whose start is not greater than its own
RECURSIVE InsertByStart(_, _)
InsertByStart(sorted, ev) ==
    IF sorted = << >> THEN << ev >>
    ELSE IF sorted[Len(sorted)].start <= ev.start THEN Append(sorted, ev)
    ELSE Append(InsertByStart(SubSeq(sorted, 1, Len(sorted) - 1), ev), sorted[Len(sorted)])

RECURSIVE SortByStart(_)
SortByStart(events) ==
    IF events = << >> THEN << >>
    ELSE InsertByStart(SortByStart(SubSeq(events, 1, Len(events) - 1)), events[Len(events)])

\* lines 321-346 with the comparison of line 323 strict: touching events
\* are kept apart
RECURSIVE WalkStrict(_, _, _, _, _)
WalkStrict(rest, merged_event_start, merged_event_end, merged_event_summary, events_combined) ==
    IF rest = << >>
    THEN Append(events_combined,
                CalendarEvent(merged_event_start, merged_event_end, merged_event_summary))
    ELSE LET event == Head(rest)
         IN  IF event.start < merged_event_end
             THEN WalkStrict(Tail(rest), merged_event_start, Max(merged_event_end, event.end),
                             merged_event_summary, events_combined)
             ELSE WalkStrict(Tail(rest), event.start, event.end, event.summary,
                             Append(events_combined,
                                    CalendarEvent(merged_event_start, merged_event_end,
                                                  merged_event_summary)))

\* lines 321-346 with line 324 taking the end of the later event
RECURSIVE WalkLastEnd(_, _, _, _, _)
WalkLastEnd(rest, merged_event_start, merged_event_end, merged_event_summary, events_combined) ==
    IF rest = << >>
    THEN Append(events_combined,
                CalendarEvent(merged_event_start, merged_event_end, merged_event_summary))
    ELSE LET event == Head(rest)
         IN  IF event.start <= merged_event_end
             THEN WalkLastEnd(Tail(rest), merged_event_start, event.end,
                              merged_event_summary, events_combined)
             ELSE WalkLastEnd(Tail(rest), event.start, event.end, event.summary,
                              Append(events_combined,
                                     CalendarEvent(merged_event_start, merged_event_end,
                                                   merged_event_summary)))

\* the loop of lines 321-337 and the append of lines 340-346
RECURSIVE Walk(_, _, _, _, _)
Walk(rest, merged_event_start, merged_event_end, merged_event_summary, events_combined) ==
    IF rest = << >>
    THEN Append(events_combined,
                CalendarEvent(merged_event_start, merged_event_end, merged_event_summary))
    ELSE LET event == Head(rest)
         IN  IF event.start <= merged_event_end
             THEN Walk(Tail(rest), merged_event_start, Max(merged_event_end, event.end),
                       merged_event_summary, events_combined)
             ELSE Walk(Tail(rest), event.start, event.end, event.summary,
                       Append(events_combined,
                              CalendarEvent(merged_event_start, merged_event_end,
                                            merged_event_summary)))

combine_events_strict(events) ==
    IF events = << >> THEN << >>
    ELSE LET sorted == SortByStart(events)
         IN  WalkStrict(Tail(sorted), sorted[1].start, sorted[1].end, sorted[1].summary, << >>)

combine_events_last_end(events) ==
    IF events = << >> THEN << >>
    ELSE LET sorted == SortByStart(events)
         IN  WalkLastEnd(Tail(sorted), sorted[1].start, sorted[1].end, sorted[1].summary, << >>)

\* combine_events, lines 307-348
combine_events(events) ==
    IF events = << >> THEN << >>
    ELSE LET sorted == SortByStart(events)
         IN  Walk(Tail(sorted), sorted[1].start, sorted[1].end, sorted[1].summary, << >>)

\* a call of combine_events: the list is sorted in place (line 313) and the
\* merged list returned
CombineEvents ==
    /\ ~merge_out.done
    /\ merge_out' = [done |-> TRUE, events |-> combine_events(merge_in)]
    /\ merge_in' = SortByStart(merge_in)
    /\ UNCHANGED << store_vars, calendar_vars, key_vars, filter_vars, view_vars >>

InitMerge ==
    /\ InitStore
    /\ KeyIdle
    /\ merge_in \in EventLists
    /\ merge_out = NotMerged
    /\ FilterIdle
    /\ ViewIdle

NextMerge == CombineEvents

SpecMerge == InitMerge /\ [][NextMerge]_vars

\* the events in the order a stable sort by start puts them: an event comes
\* after the events that start earlier and after the earlier events that
\* start with it
RankByStart(events, i) ==
    1 + Cardinality({j \in DOMAIN events :
                        \/ events[j].start < events[i].start
                        \/ events[j].start = events[i].start /\ j < i})
StableByStart(events) ==
    [k \in DOMAIN events |-> events[CHOOSE i \in DOMAIN events : RankByStart(events, i) = k]]

\* where runs open in a sorted list: at the first event and at every event
\* that starts after all the events before it have ended
RunStarts(sorted) ==
    {i \in DOMAIN sorted : \A j \in 1 .. (i - 1) : sorted[j].end < sorted[i].start}
NthRunStart(sorted, k) ==
    CHOOSE b \in RunStarts(sorted) : Cardinality({c \in RunStarts(sorted) : c < b}) = k - 1
RunMembers(sorted, k) ==
    {i \in DOMAIN sorted :
        /\ i >= NthRunStart(sorted, k)
        /\ \A c \in RunStarts(sorted) : c > NthRunStart(sorted, k) => i < c}
RunsOf(events) ==
    LET sorted == StableByStart(events)
    IN  [k \in 1 .. Cardinality(RunStarts(sorted)) |->
            LET first == sorted[NthRunStart(sorted, k)]
                ends  == {sorted[i].end : i \in RunMembers(sorted, k)}
            IN  CalendarEvent(first.start,
                              CHOOSE m \in ends : \A e \in ends : e <= m,
                              first.summary)]
SameList(a, b) == DOMAIN a = DOMAIN b /\ \A k \in DOMAIN a : a[k] = b[k]

\* C11: combine_events returns the runs of the events sorted by start, stable
\* on ties: an event that starts no later than the open run ends (touching
\* included) extends the run to the later of the two ends, any other event
\* closes the run and opens the next; a run carries the start and the summary
\* of its first event; no events give no runs, one event gives itself.
C11_MergeIsRunsOfSorted ==
    [][merge_out' # merge_out =>
        /\ SameList(merge_out'.events, RunsOf(merge_in))
        /\ merge_in = << >> => merge_out'.events = << >>
        /\ Len(merge_in) = 1 =>
                merge_out'.events = << CalendarEvent(merge_in[1].start, merge_in[1].end,
                                                      merge_in[1].summary) >>]_vars

\* the call has merged two touching events under the summary of the first
\* and kept a third, later one apart
C11_Witness ==
    /\ merge_out.done
    /\ merge_in = << CalendarEvent(0, 1, "A"), CalendarEvent(1, 2, "B"),
                     CalendarEvent(3, 3, "B") >>
    /\ merge_out.events = << CalendarEvent(0, 2, "A"), CalendarEvent(3, 3, "B") >>

\* the points of time the events of a list cover, counted in half units so
\* that the gap between two adjacent units is a point too
Covered(events) ==
    {p \in 0 .. (2 * MaxT) : \E i \in DOMAIN events :
        2 * events[i].start <= p /\ p <= 2 * events[i].end}

Chars == {"a", "b", "c"}
Atoms == Chars \cup {"."}
Texts == UNION {[1 .. n -> Chars] : n \in 0 .. MaxLen}
\* an attribute of the event: None, or a text
None == [null |-> TRUE, text |-> << >>]
Field(text) == [null |-> FALSE, text |-> text]
Fields == {None} \cup {Field(x) : x \in Texts}
FilteredEvents == [summary : Fields, description : Fields, location : Fields]
\* config[ATTR_FILTER], include_work_types and exclude_types (lines 59-66)
Filters ==
    [filter_spec : [1 .. 1 -> Atoms],
     include_work_types : {{}, {<< "a" >>}},
     exclude_types : {{}, {<< "b" >>}, {<< "a" >>}}]

\* keyword in search, on str
In(keyword, search) ==
    \E i \in 0 .. (Len(search) - Len(keyword)) :
        \A k \in 1 .. Len(keyword) : search[i + k] = keyword[k]

\* re.compile(filter_spec).search(search) is not None
Search(expression, search) ==
    \E i \in 0 .. (Len(search) - Len(expression)) :
        \A k \in 1 .. Len(expression) :
            expression[k] = "." \/ search[i + k] = expression[k]

\* AttrFilter.search, lines 208-213: the attributes in the order of _attrs
AttrSearch(event) == << event.summary, event.description, event.location >>

\* AttrFilter.match with the test of line 222 before that of line 218
AttrMatchExcludeFirst(f, search) ==
    IF \E exclude_type \in f.exclude_types : In(exclude_type, search) THEN FALSE
    ELSE IF \E work_type \in f.include_work_types : In(work_type, search) THEN TRUE
    ELSE In(f.filter_spec, search)

\* AttrFilter.match, lines 215-226
AttrMatch(f, search) ==
    IF \E work_type \in f.include_work_types : In(work_type, search) THEN TRUE
    ELSE IF \E exclude_type \in f.exclude_types : In(exclude_type, search) THEN FALSE
    ELSE In(f.filter_spec, search)

\* RegexFilter.match, lines 240-244
RegexMatch(f, search) == Search(f.filter_spec, search)

\* Filter.__call__, lines 188-192; matches[i] is what the filter's match
\* answers for the i-th attribute of the event
FilterCall(event, matches) ==
    \E i \in DOMAIN AttrSearch(event) : ~AttrSearch(event)[i].null /\ matches[i]

AttrFilter(f, event) ==
    FilterCall(event, [i \in DOMAIN AttrSearch(event) |->
                            AttrMatch(f, AttrSearch(event)[i].text)])
RegexFilter(f, event) ==
    FilterCall(event, [i \in DOMAIN AttrSearch(event) |->
                            RegexMatch(f, AttrSearch(event)[i].text)])

\* both filters built from one configuration and called on one event
CallFilters ==
    /\ ~filter_out.done
    /\ filter_out' = [done |-> TRUE,
                      attr |-> AttrFilter(filter_in.filter, filter_in.event),
                      regex |-> RegexFilter(filter_in.filter, filter_in.event)]
    /\ UNCHANGED << filter_in, store_vars, calendar_vars, key_vars, merge_vars, view_vars >>

InitFilter ==
    /\ InitStore
    /\ KeyIdle
    /\ MergeIdle
    /\ filter_in \in [filter : Filters, event : FilteredEvents]
    /\ filter_out = NotFiltered
    /\ ViewIdle

NextFilter == CallFilters

SpecFilter == InitFilter /\ [][NextFilter]_vars

HasInclude(f, text) == \E kw \in f.include_work_types : In(kw, text)
HasExclude(f, text) == \E kw \in f.exclude_types : In(kw, text)
TextsOf(event) ==
    {AttrSearch(event)[i].text : i \in {j \in 1 .. 3 : ~AttrSearch(event)[j].null}}

\* C12: on an event whose only field that is not None is the summary,
\* AttrFilter matches if the summary contains an include keyword, else
\* rejects if it contains an exclude keyword, else matches exactly when it
\* contains the filter string.
C12_AttrPrecedenceOnSummary ==
    ( /\ filter_out.done
      /\ ~filter_in.event.summary.null
      /\ filter_in.event.description.null
      /\ filter_in.event.location.null )
    => LET f == filter_in.filter
           summary == filter_in.event.summary.text
       IN  filter_out.attr <=>
                \/ HasInclude(f, summary)
                \/ ~HasExclude(f, summary) /\ In(f.filter_spec, summary)

\* a summary with an include and an exclude keyword and without the filter
\* string has matched
C12_Witness ==
    /\ filter_out.done /\ filter_out.attr
    /\ filter_in.event.description.null /\ filter_in.event.location.null
    /\ filter_in.event.summary = Field(<< "a", "b" >>)
    /\ filter_in.filter = [filter_spec |-> << "c" >>, include_work_types |-> {<< "a" >>},
                           exclude_types |-> {<< "b" >>}]

\* C13: AttrFilter rejects an event that has a field with an exclude keyword
\* and no field with an include keyword, whatever the filter string and the
\* other fields are.
C13_ExcludedFieldRejectsEvent ==
    ( /\ filter_out.done
      /\ \E x \in TextsOf(filter_in.event) : HasExclude(filter_in.filter, x)
      /\ \A x \in TextsOf(filter_in.event) : ~HasInclude(filter_in.filter, x) )
    => ~filter_out.attr

\* C14: RegexFilter decides a field as AttrFilter does, with the regular
\* expression in the place of the substring test: an include keyword
\* matches, else an exclude keyword rejects, else the expression decides.
C14_RegexSamePrecedence ==
    filter_out.done =>
        ( filter_out.regex <=>
            \E x \in TextsOf(filter_in.event) :
                \/ HasInclude(filter_in.filter, x)
                \/ ~HasExclude(filter_in.filter, x) /\ Search(filter_in.filter.filter_spec, x) )

(***************************************************************************)
(* The view, FilterCalendar, and its refresh async_update.  Lines 307-362  *)
(* (combine_events and async_get_events) are indented under async_update;  *)
(* the calls self.async_get_events and self.combine_events of lines        *)
(* 280-284 are modelled as calls of these two functions, and the call of   *)
(* line 280 may also end with an error of its own.  What the store answers *)
(* is drawn from the outcomes of CalendarStore.async_get_events.           *)
(***************************************************************************)
MinutesPerDay == 24 * 60
\* timedelta(weeks=26), line 280
Weeks26 == 26 * 7 * MinutesPerDay
Day(t) == t \div MinutesPerDay
ThrottleStep == MIN_TIME_BETWEEN_UPDATES + 1

\* the filter the view was set up with (lines 59-72)
ViewFilter == [filter_spec |-> << "c" >>, include_work_types |-> {<< "a" >>},
               exclude_types |-> {<< "b" >>}]
\* the events of the tracked calendar
UpstreamEvents ==
    {[start |-> ev.start, end |-> ev.end, summary |-> Field(<< ch >>),
      description |-> None, location |-> None] :
        ev \in {e \in [start : 0 .. 2, end : 0 .. 2] : e.start <= e.end}, ch \in {"b", "c"}}
StoreAnswers ==
    {Events(l) : l \in UNION {[1 .. n -> UpstreamEvents] : n \in 0 .. MaxAnswer}}
        \cup {CalendarUnavailable, OtherError}

\* [event for event in events if self._filter(event)], lines 283 and 361
Filtered(events) == SelectSeq(events, LAMBDA event : AttrFilter(ViewFilter, event))

\* Throttle(MIN_TIME_BETWEEN_UPDATES), line 276: the call runs when the last
\* call that ran is more than the interval ago
Throttled ==
    view_last.at # -1 /\ now - view_last.at <= MIN_TIME_BETWEEN_UPDATES

\* async_update, lines 277-303, with the answer of the store's
\* async_get_events to the call of lines 358-360
AsyncUpdate(answer) ==
    /\ ~Throttled
    /\ IF answer.kind = "events"
       THEN LET filtered_events == Filtered(Filtered(answer.v))
                combined_events == combine_events(filtered_events)
            IN  /\ view_event' = IF combined_events # << >>
                                 THEN << combined_events[1] >>
                                 ELSE view_event
                /\ view_last' = [at |-> now, start_date |-> now,
                                 end_date |-> now + Weeks26, outcome |-> "events",
                                 raised |-> FALSE, merged |-> combined_events,
                                 throttled |-> FALSE]
       ELSE /\ view_event' = view_event
            /\ view_last' = [at |-> now, start_date |-> now,
                             end_date |-> now + Weeks26, outcome |-> answer.kind,
                             raised |-> TRUE, merged |-> << >>, throttled |-> FALSE]
    /\ UNCHANGED << now, events_cache, lock_holder, lock_waiters, pc, key_of, ret,
                    awaited, fut_cancelled, cancel_requested, history_vars,
                    calendar_vars, key_vars, merge_vars, filter_vars, use_vars >>

\* async_update called within the interval: Throttle returns None and the
\* body does not run
AsyncUpdateThrottled ==
    /\ Throttled
    /\ view_last' = [view_last EXCEPT !.throttled = TRUE]
    /\ UNCHANGED << view_event, store_vars, calendar_vars, key_vars, merge_vars, filter_vars >>

\* dt.now() advances: by just more than the throttle, or to the next day
ViewTick(step) ==
    /\ \/ step = ThrottleStep /\ (now % MinutesPerDay) + step <= NThrottleSteps * ThrottleStep
       \/ step = MinutesPerDay /\ Day(now) < MaxViewDays
    /\ now' = now + step
    /\ UNCHANGED << events_cache, lock_holder, lock_waiters, pc, key_of, ret,
                    awaited, fut_cancelled, cancel_requested, history_vars,
                    calendar_vars, function_vars >>

NextView ==
    \/ \E answer \in StoreAnswers : AsyncUpdate(answer)
    \/ AsyncUpdateThrottled
    \/ \E step \in {ThrottleStep, MinutesPerDay} : ViewTick(step)

SpecView == Init /\ [][NextView]_vars

\* C15: once a refresh has got CalendarUnavailable from the store, the view
\* shows no event of an earlier refresh, and the refresh has returned to its
\* caller without raising.
C15_UnavailableShownNotRaised ==
    (~view_last.throttled /\ view_last.outcome = "CalendarUnavailable")
        => view_event = NoEvent /\ ~view_last.raised

\* C16: after a refresh that fetched, the view's event is the first of the
\* merged events of that refresh, or none when there are no merged events:
\* an event of an earlier refresh is not kept.
C16_EventIsFirstMergedOrNone ==
    view_last.outcome = "events" =>
        view_event = IF view_last.merged = << >> THEN NoEvent
                     ELSE << view_last.merged[1] >>

\* C17: a refresh fetches the widest range, 26 weeks from now, exactly when
\* the calendar day has advanced since the refresh before it (or there was
\* none), so at most once a day; any other refresh fetches a narrower range.
C17_FullRefreshOncePerDay ==
    [][view_last'.at # view_last.at =>
        ( view_last'.end_date - view_last'.start_date = Weeks26
          <=> (view_last.at = -1 \/ Day(view_last'.at) > Day(view_last.at)) )]_vars

(***************************************************************************)
(* A pending entry and the call that installed it.                         *)
(***************************************************************************)
\* C19: a pending future does not outlive the call that installed it: no
\* live entry of the cache holds a pending future whose call has ended, and
\* no caller awaits one, which it would do for ever, with the lock held.
C19_PendingEndsWithItsCall ==
    /\ \A i \in 1 .. Len(events_cache) :
            now < events_cache[i].expires => events_cache[i].val.st # "orphan"
    /\ \A t \in Callers : pc[t] = "await" => awaited[t].st # "orphan"

(***************************************************************************)
(* The cache filled beyond its capacity: one caller after the other        *)
(* requests maxsize + 1 keys, each for the first time once the key before  *)
(* it has been requested, and the first NRepeated keys again at any time.  *)
(***************************************************************************)
CapMinutes == 1 .. (maxsize + 1)
CapKey(e, m, d) == CacheKey(e, DateTime(m, 0, 0), d)
Requested(k) == last_fetch[k] # NoFetch

\* the next call of async_get_events in turn
GetEventsInTurn(t, e, m, d) ==
    /\ IF m = 1 THEN TRUE ELSE Requested(CapKey(e, m - 1, d))
    /\ m <= NRepeated \/ ~Requested(CapKey(e, m, d))
    /\ AsyncGetEvents(t, e, DateTime(m, 0, 0), d)
    /\ use_order' = Append(SelectSeq(use_order, LAMBDA k : k # CapKey(e, m, d)),
                           CapKey(e, m, d))

\* the call has returned and the next caller is about to call
NextCaller(t) ==
    /\ pc[t] = "done"
    /\ pc' = [pc EXCEPT ![t] = "idle"]
    /\ key_of' = [key_of EXCEPT ![t] = NoKey]
    /\ ret' = [ret EXCEPT ![t] = NoOutcome]
    /\ awaited' = [awaited EXCEPT ![t] = NoFuture]
    /\ fetched' = [fetched EXCEPT ![t] = FALSE]
    /\ issued' = [issued EXCEPT ![t] = [on_miss |-> FALSE, with |-> {}]]
    /\ UNCHANGED << now, events_cache, lock_holder, lock_waiters, fut_cancelled,
                    cancel_requested, last_fetch, calendar_vars, function_vars >>

NextCap ==
    \/ \E e \in EntityIds, m \in CapMinutes, d \in EndDates : GetEventsInTurn(1, e, m, d)
    \/ FetchDone(1, Events(1))
    \/ NextCaller(1)
    \/ \E e \in EntityIds : RegistryUpdate(e, "ready", 1)
    \/ pc[1] = "idle" /\ Tick

SpecCap == Init /\ [][NextCap]_vars

Live(entry) == now < entry.expires
Dropped(i) == ~HasKey(events_cache', events_cache[i].key)
\* how late in the order of requests a key was last requested
UsedAt(k) == CHOOSE i \in 1 .. Len(use_order) : use_order[i] = k

\* C20, as amended: the cache never holds more than maxsize entries, and an
\* entry is dropped before its ttl has elapsed only when the cache is full
\* and a new key comes in, after every expired entry, and before every
\* entry requested (read or written) more recently than it.
C20_CapacityLruEviction ==
    [][/\ Len(events_cache') <= maxsize
       /\ \A i \in 1 .. Len(events_cache) :
            (Live(events_cache[i]) /\ Dropped(i)) =>
                /\ Len(events_cache') = maxsize
                /\ \A j \in 1 .. Len(events_cache') : now < events_cache'[j].expires
                /\ \A j \in 1 .. Len(events_cache) :
                        (Live(events_cache[j]) /\ ~Dropped(j)) =>
                            UsedAt(events_cache[j].key) > UsedAt(events_cache[i].key)]_vars

\* C20: the cache never holds more than maxsize entries, and an entry is
\* dropped before its ttl has elapsed only when the cache is full and a new
\* key comes in, after every expired entry, and before every entry written
\* later than it.
C20_CapacityOldestWrittenEviction ==
    [][/\ Len(events_cache') <= maxsize
       /\ \A i \in 1 .. Len(events_cache) :
            (Live(events_cache[i]) /\ Dropped(i)) =>
                /\ Len(events_cache') = maxsize
                /\ \A j \in 1 .. Len(events_cache') : now < events_cache'[j].expires
                /\ \A j \in 1 .. Len(events_cache) :
                        (Live(events_cache[j]) /\ ~Dropped(j)) =>
                            events_cache[j].expires >= events_cache[i].expires]_vars

\* the cache is full, a key requested less than a ttl ago is gone from it,
\* and an entry written before that key's is still there
C20_Witness ==
    /\ Len(events_cache) = maxsize
    /\ \E k \in Keys :
            /\ Requested(k) /\ now < last_fetch[k].until
            /\ ~HasKey(events_cache, k)
            /\ \E j \in 1 .. Len(events_cache) :
                    /\ Live(events_cache[j])
                    /\ events_cache[j].expires < last_fetch[k].until

====
